---- MODULE Spec2Model ----
(***************************************************************************)
(* Model of the hybrid OCR pipeline of IndicScribe                          *)
(* (src/app/services/google_client.py, class VisionService) as it is       *)
(* driven by the /api/ocr handler (src/app/main.py).                        *)
(*                                                                         *)
(* A string is a sequence of tokens.  A token is a page header             *)
(* "--- Page N ---\n", a newline, or a run of text that one source (the    *)
(* PDF text layer, the recognition of a page image, the recognition of an  *)
(* uploaded image) produced.  A text run records the character counts the  *)
(* quality evaluator looks at, so lengths and ratios are computed, not      *)
(* assumed.                                                                 *)
(***************************************************************************)
EXTENDS Integers, Sequences, FiniteSets, TLC

\* ------------------------------------------------------------------ bounds
MaxPages == 4
\* candidate texts for the quality evaluator are up to MaxHundreds * 100
\* characters long
MaxHundreds == 5
\* concurrent /api/ocr requests of the user, and the credits the user starts
\* with
MaxRequests == 3
MaxCredits == 2
\* calls of /auth/callback
MaxLogins == 2

\* ------------------------------------------------- constants of the program
max_workers == 3
MinStrippedLen == 50
CidPercentLimit == 5
ControlPercentLimit == 10
\* text profiles used for page texts: a clean paragraph, a fragment that is
\* too short on its own, and a paragraph with CID-escape markers
CleanLen == MinStrippedLen + 10
ShortLen == MinStrippedLen \div 10
CidMarkers == CidPercentLimit + 1

\* ------------------------------------------------------------ optional ints
None == <<>>
Some(n) == <<n>>
Max(a, b) == IF a >= b THEN a ELSE b
Min(a, b) == IF a <= b THEN a ELSE b

\* ------------------------------------------------------------------ strings
Hdr(num) == [k |-> "hdr", num |-> num]
NL == [k |-> "nl"]
Txt(origin, page, n, cid, ctrl, ext, tws) ==
  [k |-> "txt", origin |-> origin, page |-> page, n |-> n, cid |-> cid,
   ctrl |-> ctrl, ext |-> ext, tws |-> tws]
EmptyStr == <<>>

Digits(n) == IF n < 10 THEN 1 ELSE 2

\* len() of one token: "--- Page N ---\n" is 9 + digits + 4 + 1 characters
TokLen(t) ==
  CASE t.k = "hdr" -> 14 + Digits(t.num)
    [] t.k = "nl" -> 1
    [] OTHER -> t.n

RECURSIVE StrLen(_)
StrLen(s) == IF s = <<>> THEN 0 ELSE TokLen(Head(s)) + StrLen(Tail(s))

\* text.count('(cid:')
RECURSIVE CidCount(_)
CidCount(s) ==
  IF s = <<>> THEN 0
  ELSE (IF Head(s).k = "txt" THEN Head(s).cid ELSE 0) + CidCount(Tail(s))

\* sum(1 for c in text if ord(c) < 32 and c not in '\n\t\r')
RECURSIVE ControlCount(_)
ControlCount(s) ==
  IF s = <<>> THEN 0
  ELSE (IF Head(s).k = "txt" THEN Head(s).ctrl ELSE 0) + ControlCount(Tail(s))

\* characters of the text with code points 128 to 255
RECURSIVE ExtCount(_)
ExtCount(s) ==
  IF s = <<>> THEN 0
  ELSE (IF Head(s).k = "txt" THEN Head(s).ext ELSE 0) + ExtCount(Tail(s))

\* number of trailing whitespace characters str.strip() removes
RECURSIVE TrailWs(_)
TrailWs(s) ==
  IF s = <<>> THEN 0
  ELSE LET t == s[Len(s)]
           init == SubSeq(s, 1, Len(s) - 1)
       IN CASE t.k = "nl" -> 1 + TrailWs(init)
            [] t.k = "hdr" -> 1
            [] OTHER -> IF t.tws = t.n THEN t.n + TrailWs(init) ELSE t.tws

\* number of leading whitespace characters str.strip() removes
RECURSIVE LeadWs(_)
LeadWs(s) ==
  IF s = <<>> THEN 0
  ELSE LET t == Head(s)
       IN CASE t.k = "nl" -> 1 + LeadWs(Tail(s))
            [] t.k = "hdr" -> 0
            [] OTHER -> IF t.tws = t.n THEN t.n + LeadWs(Tail(s)) ELSE 0

\* len(text.strip())
StrippedLen(s) ==
  IF TrailWs(s) >= StrLen(s) THEN 0 ELSE StrLen(s) - TrailWs(s) - LeadWs(s)

\* variant: the CID-escape markers are not looked at
QualityWithoutCidCheck(text) ==
  IF text = EmptyStr \/ StrippedLen(text) < MinStrippedLen THEN FALSE
  ELSE IF ControlCount(text) * 100 > ControlPercentLimit * StrLen(text) THEN FALSE
  ELSE TRUE

\* VisionService._is_text_quality_good
_is_text_quality_good(text) ==
  IF text = EmptyStr \/ StrippedLen(text) < MinStrippedLen THEN FALSE
  ELSE IF CidCount(text) * 100 > CidPercentLimit * StrLen(text) THEN FALSE
  ELSE IF ControlCount(text) * 100 > ControlPercentLimit * StrLen(text) THEN FALSE
  ELSE TRUE

\* f"--- Page {num} ---\n{text}\n"
PageBlock(num, text) == <<Hdr(num)>> \o text \o <<NL>>

\* "\n".join(parts), parts a sequence of strings
RECURSIVE JoinNL(_)
JoinNL(parts) ==
  IF parts = <<>> THEN <<>>
  ELSE IF Len(parts) = 1 THEN parts[1]
  ELSE parts[1] \o <<NL>> \o JoinNL(Tail(parts))

\* ------------------------------------------------------------------- inputs
PdfMagic == <<"%", "P", "D", "F">>
ByteInputs ==
  { <<>>,
    PdfMagic \o <<"-">>,
    PdfMagic,
    <<"%", "P", "D">>,
    <<"x", "%", "P", "D", "F">>,
    <<"%", "P", "D", "f", "-">>,
    <<"x", "y", "z", "w">> }
Filenames == {"scan.pdf", "scan.png"}
Window == {None} \cup {Some(n) : n \in 0..(MaxPages + 1)}

\* variant: the signature is looked for anywhere in the bytes
IsPdfAnywhere(file_bytes) ==
  \E i \in 1..Len(file_bytes) :
    i + 3 <= Len(file_bytes) /\ SubSeq(file_bytes, i, i + 3) = PdfMagic

\* VisionService._is_pdf: file_bytes[:4] == b'%PDF'
_is_pdf(file_bytes) ==
  SubSeq(file_bytes, 1, Min(4, Len(file_bytes))) = PdfMagic

\* variant: the window is taken as given, without clamping
ResolveUnclamped(totalPages, start, end) ==
  [start |-> IF start = None THEN 1 ELSE start[1],
   end |-> IF end = None THEN totalPages ELSE end[1]]

\* PageRangeResolver.resolve(totalPages, start?, end?)
resolve(totalPages, start, end) ==
  [start |-> Max(1, IF start = None THEN 1 ELSE start[1]),
   end |-> Min(totalPages, IF end = None THEN totalPages ELSE end[1])]

RangePages(r) == r.start..r.end

\* page texts the text layer of a page can hold
LayerText(profile, p) ==
  CASE profile = "clean" -> <<Txt("layer", p, CleanLen, 0, 0, 0, 0)>>
    [] profile = "short" -> <<Txt("layer", p, ShortLen, 0, 0, 0, 0)>>
    [] profile = "cid" -> <<Txt("layer", p, CleanLen, CidMarkers, 0, 0, 0)>>
    [] OTHER -> EmptyStr
DirectOutcomes == {"clean", "short", "cid", "none", "exc"}

\* text the recognition capability returns for a page image / an image
OcrText(origin, p) == <<Txt(origin, p, CleanLen, 0, 0, 0, 0)>>
CallOutcomes == {"text", "blank", "apierr", "exc"}

\* ordered list of the elements of a finite set of integers
RECURSIVE Ascending(_)
Ascending(S) ==
  IF S = {} THEN <<>>
  ELSE LET m == CHOOSE x \in S : \A y \in S : x <= y
       IN <<m>> \o Ascending(S \ {m})

\* list.sort(key=lambda x: x[0]): stable insertion sort on the page number
RECURSIVE InsertByPage(_, _)
InsertByPage(sorted, x) ==
  IF sorted = <<>> THEN <<x>>
  ELSE IF x[1] < Head(sorted)[1] THEN <<x>> \o sorted
  ELSE <<Head(sorted)>> \o InsertByPage(Tail(sorted), x)

\* variant: the list is joined in the order of completion
NoSort(parts) == parts

RECURSIVE SortByPage(_)
SortByPage(parts) ==
  IF parts = <<>> THEN <<>>
  ELSE InsertByPage(SortByPage(SubSeq(parts, 1, Len(parts) - 1)), parts[Len(parts)])

\* [f"--- Page {num} ---\n{text}\n" for num, text in text_parts]
Blocks(parts) == [i \in 1..Len(parts) |-> PageBlock(parts[i][1], parts[i][2])]

\* variant: numbering restarts at 1 whatever the first page is
EnumerateRelative(items, first) ==
  [i \in 1..Len(items) |-> <<i, items[i]>>]

\* enumerate(items, first): pairs <<number, item>>
Enumerate(items, first) ==
  [i \in 1..Len(items) |-> <<first + i - 1, items[i]>>]

\* the pages of the document the run works on, in document order, and the
\* number the first of them carries
DocPages(r) == Ascending(RangePages(r))
FirstPageNumber(r) == r.start

\* variant: the loop without the test of line 150
RECURSIVE DirectPartsNoCheck(_, _)
DirectPartsNoCheck(numbered, texts) ==
  IF numbered = <<>> THEN <<>>
  ELSE <<PageBlock(Head(numbered)[1], texts[Head(numbered)[2]])>>
       \o DirectPartsNoCheck(Tail(numbered), texts)

\* the loop of _extract_text_directly_from_pdf over the enumerated pages:
\* a page whose extract_text() is empty or raises adds nothing
RECURSIVE DirectParts(_, _)
DirectParts(numbered, texts) ==
  IF numbered = <<>> THEN <<>>
  ELSE LET num == Head(numbered)[1]
           page == Head(numbered)[2]
       IN (IF texts[page] # EmptyStr
           THEN <<PageBlock(num, texts[page])>> ELSE <<>>)
          \o DirectParts(Tail(numbered), texts)

\* VisionService._extract_text_directly_from_pdf on an opened document
_extract_text_directly_from_pdf(r, texts) ==
  JoinNL(DirectParts(Enumerate(DocPages(r), FirstPageNumber(r)), texts))

\* variant: line 121 without the call of the evaluator
AcceptsNonEmpty(text) == text # EmptyStr

\* the condition of line 121 that ends the run with the direct text
AcceptsDirect(text) == text # EmptyStr /\ _is_text_quality_good(text)

\* the images convert_from_bytes renders for the run, one per page, in
\* document order; an image is identified by the page it shows
RasterPages(r) == DocPages(r)

\* variant: a failed call returns an error notice as if it were page text
PilImageErrorAsText(outcome, pil_image) ==
  IF outcome = "text" THEN OcrText("ocr", pil_image)
  ELSE IF outcome \in {"apierr", "exc"}
       THEN <<Txt("error", pil_image, ShortLen, 0, 0, 0, 0)>>
       ELSE EmptyStr

\* VisionService._extract_text_from_pil_image: what a page task returns
_extract_text_from_pil_image(outcome, pil_image) ==
  IF outcome = "text" THEN OcrText("ocr", pil_image) ELSE EmptyStr

\* variant: the text of the response is not returned
ImageTextDropped(outcome) == EmptyStr

\* VisionService._extract_text_from_image: what the single image call returns
_extract_text_from_image(outcome) ==
  IF outcome = "text" THEN OcrText("image", 0) ELSE EmptyStr

\* the tail of _extract_text_via_images: sort by page number and join
AssembleText(parts) == JoinNL(Blocks(SortByPage(parts)))

\* -------------------------------------------------------------------- state
VARIABLES
  doc,            \* the upload: bytes, whether the PDF opens, its page count
  filename,       \* name the caller gave the upload
  page_start,     \* requested window, optional
  page_end,
  pc,             \* position of the pipeline run
  kind,           \* result of the classification
  range,          \* resolved page range
  page_text,      \* what extract_text() gave for each page of the range
  extracted_text, \* result of direct extraction
  accepted,       \* outcome of the quality gate
  images,         \* rasterized page images held by the run, in order
  task,           \* per page_num: the future's state, image and result
  text_parts,     \* (page_num, text) in the order the futures were consumed
  result,         \* text returned by detect_text
  calls,          \* number of calls made to the recognition capability
  rasterizations, \* number of calls made to the rasterizer
  ocr_failed,     \* page numbers whose recognition call failed
  img_outcome,    \* how the recognition call of an image upload ended
  doc_error,      \* document-level failure met by the run
  direct_failed,  \* pages whose extract_text() raised
  held,           \* page images the run still holds in memory
  candidate,      \* text handed to the quality evaluator
  verdict,        \* what the quality evaluator returned for it
  reqs,           \* per /api/ocr request: position, loaded user, file, status
  users,          \* the users table as stored: the rows, in order of id
  logins,         \* per /auth/callback call: position, google_id, user
  tmp_files       \* names of the temporary files that exist

request == <<doc, filename, page_start, page_end>>
direct == <<range, page_text, extracted_text, accepted, direct_failed>>
pool == <<images, held, task, text_parts, ocr_failed>>
meters == <<calls, rasterizations>>
\* what the pipeline does not touch: the evaluator on its own, the handler
evaluation == <<candidate, verdict>>
handler == <<reqs, users, tmp_files, logins>>
outside == <<evaluation, handler>>
pipeline == <<request, pc, kind, direct, pool, result, meters, img_outcome,
              doc_error>>
vars == <<doc, filename, page_start, page_end, pc, kind, range, page_text,
          extracted_text, accepted, images, task, text_parts, result, calls,
          rasterizations, ocr_failed, img_outcome, doc_error, direct_failed,
          held, candidate, verdict, reqs, users, logins,
          tmp_files>>

NoRange == [start |-> 1, end |-> 0]

Docs ==
  { [bytes |-> b, readable |-> r, total |-> t] :
      b \in ByteInputs, r \in BOOLEAN, t \in 0..MaxPages }

\* a document has pages exactly when it is a PDF that opens
DocOk(d) ==
  IF _is_pdf(d.bytes) /\ d.readable THEN d.total >= 1
  ELSE d.total = 0 /\ ~d.readable

\* one /api/ocr request: where it stands, the user_id of its session, the
\* ocr_credits of the user row it loaded, the tmp_path it holds, the status
\* it answered with; and what it has done so far: whether it made a
\* temporary file, its calls of the text detection, its commits
Requests == 1..MaxRequests
NewRequest ==
  [pc |-> "Arrived", user_id |-> None, user |-> None, tmp_path |-> None,
   status |-> 0, created |-> FALSE, detections |-> 0, commits |-> 0]

\* one call of /auth/callback: where it stands, the google_id of the
\* userinfo, the id it put into the session, and of the row that
\* get_or_create_user returned: whether the query found it and its
\* ocr_credits
Logins == 1..MaxLogins
NewLogin ==
  [pc |-> "Arrived", google_id |-> None, user_id |-> None, found |-> FALSE,
   user |-> None]

\* no text is under evaluation
EvaluatorIdle ==
  /\ candidate = EmptyStr
  /\ verdict = "none"

\* no request has arrived
HandlerIdle ==
  /\ reqs = [r \in Requests |-> NewRequest]
  /\ users = <<>>
  /\ tmp_files = {}
  /\ logins = [l \in Logins |-> NewLogin]

\* detect_text has been entered and nothing has been done yet
PipelineStart ==
  /\ pc = "Start"
  /\ kind = "Unknown"
  /\ range = NoRange
  /\ page_text = <<>>
  /\ extracted_text = EmptyStr
  /\ accepted = "unknown"
  /\ images = <<>>
  /\ task = <<>>
  /\ text_parts = <<>>
  /\ result = EmptyStr
  /\ calls = 0
  /\ rasterizations = 0
  /\ ocr_failed = {}
  /\ img_outcome = "none"
  /\ doc_error = "none"
  /\ direct_failed = {}
  /\ held = {}

\* no upload is being processed
NoUpload == [bytes |-> <<>>, readable |-> FALSE, total |-> 0]
PipelineIdle ==
  /\ doc = NoUpload
  /\ filename = "scan.pdf"
  /\ page_start = None
  /\ page_end = None
  /\ PipelineStart

Init ==
  /\ EvaluatorIdle
  /\ HandlerIdle
  /\ doc \in {d \in Docs : DocOk(d)}
  /\ filename \in Filenames
  /\ page_start \in Window
  /\ page_end \in Window
  /\ PipelineStart

\* ------------------------------------------------------------------ actions
Running == {p \in DOMAIN task : task[p].st = "running"}
Queued == {p \in DOMAIN task : task[p].st = "queued"}

\* detect_text, lines 44-46: empty input returns "" at once
EmptyInput ==
  /\ pc = "Start"
  /\ doc.bytes = <<>>
  /\ result' = EmptyStr
  /\ pc' = "Done"
  /\ UNCHANGED <<outside, request, kind, direct, pool, meters, img_outcome, doc_error>>

\* detect_text, line 48: classification by magic bytes
Classify ==
  /\ pc = "Start"
  /\ doc.bytes # <<>>
  /\ kind' = IF _is_pdf(doc.bytes) THEN "Pdf" ELSE "Image"
  /\ pc' = "Classified"
  /\ UNCHANGED <<outside, request, direct, pool, result, meters, img_outcome, doc_error>>

\* detect_text line 53 and _extract_text_from_image: one recognition call;
\* an API error, an exception and a response without annotations give ""
RecognizeImage ==
  /\ pc = "Classified"
  /\ kind = "Image"
  /\ \E o \in CallOutcomes :
       /\ img_outcome' = o
       /\ result' = _extract_text_from_image(o)
       /\ doc_error' = IF o = "exc" THEN "capability" ELSE doc_error
  /\ calls' = calls + 1
  /\ pc' = "Done"
  /\ UNCHANGED <<outside, request, kind, direct, pool, rasterizations>>

\* variant: one try around the whole loop, so a page that raises ends the
\* extraction with ""
ExtractDirectAbortOnError ==
  /\ pc = "Classified"
  /\ kind = "Pdf"
  /\ IF doc.readable
     THEN LET r == resolve(doc.total, page_start, page_end)
          IN /\ range' = r
             /\ \E f \in [RangePages(r) -> DirectOutcomes] :
                  /\ page_text' = [p \in RangePages(r) |-> LayerText(f[p], p)]
                  /\ direct_failed' = {p \in RangePages(r) : f[p] = "exc"}
                  /\ extracted_text' =
                       IF direct_failed' # {} THEN EmptyStr
                       ELSE _extract_text_directly_from_pdf(r, page_text')
             /\ doc_error' = doc_error
     ELSE /\ range' = NoRange
          /\ page_text' = <<>>
          /\ direct_failed' = {}
          /\ extracted_text' = EmptyStr
          /\ doc_error' = "open"
  /\ pc' = "DirectExtracted"
  /\ UNCHANGED <<outside, request, kind, accepted, pool, result, meters, img_outcome>>

\* _extract_text_from_pdf_hybrid line 118: phase 1.  A document that does
\* not open makes _extract_text_directly_from_pdf return "" (lines 161-163).
ExtractDirect ==
  /\ pc = "Classified"
  /\ kind = "Pdf"
  /\ IF doc.readable
     THEN LET r == resolve(doc.total, page_start, page_end)
          IN /\ range' = r
             /\ \E f \in [RangePages(r) -> DirectOutcomes] :
                  /\ page_text' = [p \in RangePages(r) |-> LayerText(f[p], p)]
                  /\ direct_failed' = {p \in RangePages(r) : f[p] = "exc"}
                  /\ extracted_text' =
                       _extract_text_directly_from_pdf(r, page_text')
             /\ doc_error' = doc_error
     ELSE /\ range' = NoRange
          /\ page_text' = <<>>
          /\ direct_failed' = {}
          /\ extracted_text' = EmptyStr
          /\ doc_error' = "open"
  /\ pc' = "DirectExtracted"
  /\ UNCHANGED <<outside, request, kind, accepted, pool, result, meters, img_outcome>>

\* _extract_text_from_pdf_hybrid line 121: the quality gate
QualityCheck ==
  /\ pc = "DirectExtracted"
  /\ accepted' = IF AcceptsDirect(extracted_text) THEN "yes" ELSE "no"
  /\ pc' = "QualityChecked"
  /\ UNCHANGED <<outside, request, kind, range, page_text, extracted_text,
                 direct_failed, pool, result, meters, img_outcome, doc_error>>

\* line 123: the direct text is the result
AcceptDirect ==
  /\ pc = "QualityChecked"
  /\ accepted = "yes"
  /\ result' = extracted_text
  /\ pc' = "Done"
  /\ UNCHANGED <<outside, request, kind, direct, pool, meters, img_outcome, doc_error>>

\* variant: phase 2 runs whatever the gate said
Phase2Always(acc) == acc \in {"yes", "no"}

\* whether line 127 (phase 2) is reached after the gate
Phase2Needed(acc) == acc = "no"

\* _extract_text_via_images lines 170-177 and 203-205: rasterization.  It
\* raises for a document that does not open and may raise for any other;
\* the exception and an empty image list both end the run with "".
\* extracted_text is not read after line 121.
Rasterize ==
  /\ pc = "QualityChecked"
  /\ Phase2Needed(accepted)
  /\ rasterizations' = rasterizations + 1
  /\ extracted_text' = EmptyStr
  /\ page_text' = <<>>
  /\ direct_failed' = {}
  /\ \E o \in {"ok", "exc"} :
       /\ ~doc.readable => o = "exc"
       /\ IF o = "exc"
          THEN /\ result' = EmptyStr
               /\ pc' = "Done"
               /\ images' = <<>>
               /\ held' = {}
               /\ doc_error' = IF doc_error = "none" THEN "rasterize"
                                ELSE doc_error
          ELSE /\ images' = RasterPages(range)
               /\ doc_error' = doc_error
               /\ held' = {images'[i] : i \in 1..Len(images')}
               /\ IF images' = <<>>
                  THEN result' = EmptyStr /\ pc' = "Done"
                  ELSE result' = result /\ pc' = "Rasterized"
  /\ UNCHANGED <<outside, request, kind, range, accepted, task, text_parts, calls,
                 ocr_failed, img_outcome>>

\* lines 181-185: one future per enumerated image is submitted to the pool
Submit ==
  /\ pc = "Rasterized"
  /\ LET numbered == Enumerate(images, FirstPageNumber(range))
     IN task' = [n \in {numbered[i][1] : i \in 1..Len(numbered)} |->
                  [st |-> "queued",
                   img |-> numbered[n - numbered[1][1] + 1][2],
                   res |-> EmptyStr]]
  /\ text_parts' = <<>>
  /\ pc' = "Recognizing"
  /\ UNCHANGED <<outside, request, kind, direct, images, held, ocr_failed, result, meters,
                 img_outcome, doc_error>>

\* variant: a worker takes any queued future
WorkerStartAnyOrder(p) ==
  /\ pc = "Recognizing"
  /\ p \in Queued
  /\ Cardinality(Running) < max_workers
  /\ task' = [task EXCEPT ![p].st = "running"]
  /\ calls' = calls + 1
  /\ UNCHANGED <<outside, request, pc, kind, direct, images, held, text_parts, ocr_failed,
                 result, rasterizations, img_outcome, doc_error>>

\* variant: every submitted future gets a thread of its own
WorkerStartUnbounded(p) ==
  /\ pc = "Recognizing"
  /\ p \in Queued
  /\ \A q \in Queued : p <= q
  /\ task' = [task EXCEPT ![p].st = "running"]
  /\ calls' = calls + 1
  /\ UNCHANGED <<outside, request, pc, kind, direct, images, held, text_parts, ocr_failed,
                 result, rasterizations, img_outcome, doc_error>>

\* a free worker of the pool takes the oldest queued future and issues the
\* recognition call of line 217
WorkerStart(p) ==
  /\ pc = "Recognizing"
  /\ p \in Queued
  /\ \A q \in Queued : p <= q
  /\ Cardinality(Running) < max_workers
  /\ task' = [task EXCEPT ![p].st = "running"]
  /\ calls' = calls + 1
  /\ UNCHANGED <<outside, request, pc, kind, direct, images, held, text_parts, ocr_failed,
                 result, rasterizations, img_outcome, doc_error>>

\* variant: a call that raised is queued again
WorkerFinishRetry(p) ==
  /\ pc = "Recognizing"
  /\ p \in Running
  /\ \E o \in CallOutcomes :
       /\ task' = [task EXCEPT
                     ![p].st = IF o = "exc" /\ calls < MaxPages + 1
                               THEN "queued" ELSE "done",
                     ![p].res = _extract_text_from_pil_image(o, task[p].img)]
       /\ ocr_failed' = IF o \in {"apierr", "exc"}
                         THEN ocr_failed \cup {p} ELSE ocr_failed
  /\ UNCHANGED <<outside, request, pc, kind, direct, images, held, text_parts, result,
                 meters, img_outcome, doc_error>>

\* the call returns; _extract_text_from_pil_image lines 219-229 turn an API
\* error and an exception into ""
WorkerFinish(p) ==
  /\ pc = "Recognizing"
  /\ p \in Running
  /\ \E o \in CallOutcomes :
       /\ task' = [task EXCEPT
                     ![p].st = "done",
                     ![p].res = _extract_text_from_pil_image(o, task[p].img)]
       /\ ocr_failed' = IF o \in {"apierr", "exc"}
                         THEN ocr_failed \cup {p} ELSE ocr_failed
  /\ UNCHANGED <<outside, request, pc, kind, direct, images, held, text_parts, result,
                 meters, img_outcome, doc_error>>

\* lines 187-195: as_completed hands over a finished future
Collect(p) ==
  /\ pc = "Recognizing"
  /\ p \in DOMAIN task
  /\ task[p].st = "done"
  /\ task' = [task EXCEPT ![p].st = "collected"]
  /\ text_parts' = IF task[p].res # EmptyStr
                     THEN Append(text_parts, <<p, task[p].res>>)
                     ELSE text_parts
  /\ UNCHANGED <<outside, request, pc, kind, direct, images, held, ocr_failed, result,
                 meters, img_outcome, doc_error>>

\* variant: the gather waits for a future of every page of the document
AssembleWaitingForAllPages ==
  /\ pc = "Recognizing"
  /\ \A p \in 1..doc.total : p \in DOMAIN task /\ task[p].st = "collected"
  /\ result' = AssembleText(text_parts)
  /\ held' = {}
  /\ pc' = "Done"
  /\ UNCHANGED <<outside, request, kind, direct, images, task, text_parts, ocr_failed,
                 meters, img_outcome, doc_error>>

\* variant: the page images stay referenced after the return
AssembleKeepingImages ==
  /\ pc = "Recognizing"
  /\ \A p \in DOMAIN task : task[p].st = "collected"
  /\ result' = AssembleText(text_parts)
  /\ pc' = "Done"
  /\ UNCHANGED <<outside, request, kind, direct, pool, meters, img_outcome, doc_error>>

\* lines 197-201: every future consumed; sort, join, return.  With the
\* return the frame of _extract_text_via_images ends and with it the last
\* reference to the page images.
Assemble ==
  /\ pc = "Recognizing"
  /\ \A p \in DOMAIN task : task[p].st = "collected"
  /\ result' = AssembleText(text_parts)
  /\ held' = {}
  /\ pc' = "Done"
  /\ UNCHANGED <<outside, request, kind, direct, images, task, text_parts, ocr_failed,
                 meters, img_outcome, doc_error>>

Next ==
  \/ EmptyInput
  \/ Classify
  \/ RecognizeImage
  \/ ExtractDirect
  \/ QualityCheck
  \/ AcceptDirect
  \/ Rasterize
  \/ Submit
  \/ \E p \in DOMAIN task : WorkerStart(p)
  \/ \E p \in DOMAIN task : WorkerFinish(p)
  \/ \E p \in DOMAIN task : Collect(p)
  \/ Assemble

Spec == Init /\ [][Next]_vars

TypeOK ==
  /\ pc \in {"Start", "Classified", "DirectExtracted", "QualityChecked",
              "Rasterized", "Recognizing", "Done", "Failed"}
  /\ kind \in {"Unknown", "Pdf", "Image"}
  /\ accepted \in {"unknown", "yes", "no"}
  /\ calls \in 0..MaxPages
  /\ rasterizations \in 0..1

\* --------------------------------------------------- reading a result text
IsHdr(t) == t.k = "hdr"
IsTxt(t) == t.k = "txt"

\* page numbers of the headers of a text, in order of appearance
HeaderNums(s) ==
  LET hs == SelectSeq(s, IsHdr) IN [i \in 1..Len(hs) |-> hs[i].num]

\* the text runs that follow the header of page num
BlockTexts(s, num) ==
  {s[i + 1] : i \in {j \in 1..(Len(s) - 1) : s[j] = Hdr(num) /\ IsTxt(s[j + 1])}}

HasBlock(s, num) == \E i \in 1..Len(s) : s[i] = Hdr(num)

StrictlyAscending(q) == \A i \in 1..(Len(q) - 1) : q[i] < q[i + 1]

PdfRunDone == pc = "Done" /\ kind = "Pdf"

\* ------------------------------------------------------------------- claims

\* C1: a PDF whose direct-extraction text the quality evaluator accepts
\* never causes a rasterization or a call to the recognition capability.
C1_AcceptedMakesNoRecognitionCall ==
  (kind = "Pdf" /\ accepted = "yes")
  => /\ calls = 0
     /\ rasterizations = 0
     /\ images = <<>>
     /\ task = <<>>

C1_Witness ==
  /\ PdfRunDone
  /\ accepted = "yes"
  /\ result # EmptyStr
  /\ calls = 0

\* C2: when the quality evaluator rejects the direct-extraction text of a
\* PDF, every text run of the returned text is the recognition result of a
\* page of the resolved range, and none comes from the text layer.
C2_RejectedOutputFromRecognition ==
  (PdfRunDone /\ (accepted = "no" \/ ~_is_text_quality_good(extracted_text)))
  => \A i \in 1..Len(result) :
       IsTxt(result[i]) =>
         /\ result[i].origin = "ocr"
         /\ result[i].page \in RangePages(range)
         /\ \E n \in DOMAIN task :
              task[n].img = result[i].page /\ task[n].res = <<result[i]>>

C2_Witness ==
  /\ PdfRunDone
  /\ accepted = "no"
  /\ Len(HeaderNums(result)) >= 2
  /\ range.start > 1

\* C3: in a PDF run direct extraction comes first: the rasterizer and the
\* recognition capability are used only after the direct text was
\* extracted, evaluated and rejected, and the run moves only along
\* Classified, DirectExtracted, QualityChecked, Rasterized, Recognizing.
PdfOrder ==
  { <<"Classified", "DirectExtracted">>,
    <<"DirectExtracted", "QualityChecked">>,
    <<"QualityChecked", "Done">>,
    <<"QualityChecked", "Rasterized">>,
    <<"Rasterized", "Recognizing">>,
    <<"Recognizing", "Recognizing">>,
    <<"Recognizing", "Done">> }

C3_DirectExtractionFirst ==
  [][ kind = "Pdf" =>
        /\ <<pc, pc'>> \in PdfOrder
        /\ (calls' # calls \/ rasterizations' # rasterizations
              \/ images' # images \/ task' # task)
             => (accepted = "no" /\ pc \in {"QualityChecked", "Rasterized",
                                             "Recognizing"})
        /\ pc' = "Rasterized" => accepted = "no" ]_vars

C3_Witness ==
  /\ kind = "Pdf"
  /\ pc = "Recognizing"
  /\ accepted = "no"
  /\ calls > 0
  /\ \A p \in DOMAIN task : task[p].st = "collected"

\* C4: on the recognition path the page headers of the returned text are
\* in strictly ascending page-number order, whatever the order in which
\* the page tasks completed.
C4_OutputInPageOrder ==
  (PdfRunDone /\ accepted = "no")
  => /\ StrictlyAscending(HeaderNums(result))
     /\ Len(HeaderNums(result)) = Len(text_parts)

C4_Witness ==
  /\ PdfRunDone
  /\ Len(text_parts) >= 3
  /\ text_parts[1][1] > text_parts[2][1]
  /\ text_parts[2][1] < text_parts[3][1]
  /\ StrictlyAscending(HeaderNums(result))

\* C5: a page whose recognition call fails contributes no text, and every
\* other page is still recognized and, when it has text, present in the
\* returned text; the run ends normally.
C5_PageFailureIsIsolated ==
  (PdfRunDone /\ task # <<>>)
  => /\ calls = Len(images)
     /\ \A n \in DOMAIN task :
          /\ task[n].st = "collected"
          /\ n \in ocr_failed =>
               (task[n].res = EmptyStr /\ ~HasBlock(result, n))
          /\ n \notin ocr_failed =>
               (task[n].res # EmptyStr =>
                  BlockTexts(result, n) = {task[n].res[1]})

C5_Witness ==
  /\ PdfRunDone
  /\ Cardinality(ocr_failed) = 1
  /\ Len(HeaderNums(result)) = Len(images) - 1
  /\ Len(images) >= 3

\* C6: a document-level failure (the document does not open, rasterization
\* raises, the recognition capability raises) ends the run as an explicit
\* error, never as a returned text.
C6_DocumentFailureIsExplicit ==
  (pc \in {"Done", "Failed"} /\ doc_error # "none") => pc = "Failed"

\* C7: the resolved range is start' = max(1, start or 1) and
\* end' = min(totalPages, end or totalPages); it is empty when start' > end'
\* and lies within 1..totalPages otherwise; an empty range gives no pages
\* and an empty text.
C7_ResolvedRange ==
  /\ resolve(10, None, None) = [start |-> 1, end |-> 10]
  /\ resolve(10, Some(0), Some(999)) = [start |-> 1, end |-> 10]
  /\ LET r == resolve(10, Some(7), Some(3)) IN r.start > r.end
  /\ (kind = "Pdf" /\ doc.readable /\ pc \notin {"Start", "Classified"})
     => LET s == IF page_start = None THEN 1 ELSE page_start[1]
            e == IF page_end = None THEN doc.total ELSE page_end[1]
        IN /\ range.start = (IF s < 1 THEN 1 ELSE s)
           /\ range.end = (IF e > doc.total THEN doc.total ELSE e)
           /\ range.start <= range.end
                => (1 <= range.start /\ range.end <= doc.total)
           /\ range.start > range.end
                => /\ extracted_text = EmptyStr
                   /\ images = <<>>
                   /\ calls = 0
                   /\ pc = "Done" => result = EmptyStr

C7_Witness ==
  /\ PdfRunDone
  /\ page_start = Some(0)
  /\ page_end = Some(doc.total + 1)
  /\ doc.total = MaxPages
  /\ range = [start |-> 1, end |-> MaxPages]
  /\ Len(HeaderNums(result)) = MaxPages

C7_WitnessEmpty ==
  /\ PdfRunDone
  /\ page_start = Some(3)
  /\ page_end = Some(2)
  /\ doc.total >= 3
  /\ rasterizations = 1
  /\ doc_error = "none"

C8_WitnessRecognition ==
  /\ PdfRunDone
  /\ doc.total = 4
  /\ page_start = Some(2)
  /\ page_end = Some(4)
  /\ accepted = "no"
  /\ HeaderNums(result) = <<2, 4>>

\* the first four bytes are '%PDF'
HasPdfPrefix(b) ==
  Len(b) >= 4 /\ b[1] = "%" /\ b[2] = "P" /\ b[3] = "D" /\ b[4] = "F"

\* C9 as stated: every input is classified, Pdf exactly when its first four
\* bytes are '%PDF' and Image otherwise, and every input that is not a Pdf,
\* the empty one included, goes through the image recognition call.
C9_EveryNonPdfIsRecognizedAsImage ==
  /\ pc # "Start" => kind = (IF HasPdfPrefix(doc.bytes) THEN "Pdf" ELSE "Image")
  /\ (pc = "Done" /\ ~HasPdfPrefix(doc.bytes))
       => (calls = 1 /\ img_outcome # "none")

\* C9 amended: every non-empty input is classified, Pdf exactly when its
\* first four bytes are '%PDF' and Image otherwise, whatever the filename,
\* with no error outcome, and every non-empty input that is not a Pdf goes
\* through the image recognition call; the empty input is not classified
\* and returns the empty text without a recognition call.
C9_NonEmptyNonPdfIsRecognizedAsImage ==
  /\ pc # "Failed"
  /\ (pc # "Start" /\ doc.bytes # <<>>)
       => kind = (IF HasPdfPrefix(doc.bytes) THEN "Pdf" ELSE "Image")
  /\ (pc = "Done" /\ doc.bytes # <<>> /\ ~HasPdfPrefix(doc.bytes))
       => (calls = 1 /\ img_outcome # "none" /\ rasterizations = 0)
  /\ (pc # "Start" /\ doc.bytes = <<>>)
       => (pc = "Done" /\ kind = "Unknown" /\ calls = 0
           /\ img_outcome = "none" /\ result = EmptyStr)

C9_Witness ==
  /\ pc = "Done"
  /\ doc.bytes = <<"x", "%", "P", "D", "F">>
  /\ filename = "scan.pdf"
  /\ kind = "Image"
  /\ calls = 1

\* C10: a document classified as Image gets exactly one recognition call,
\* no direct extraction and no rasterization, and the text of that call is
\* the returned text.
C10_ImageIsOneRecognitionCall ==
  kind = "Image"
  => /\ calls = (IF pc = "Done" THEN 1 ELSE 0)
     /\ rasterizations = 0
     /\ images = <<>>
     /\ task = <<>>
     /\ accepted = "unknown"
     /\ extracted_text = EmptyStr
     /\ page_text = <<>>
     /\ pc \in {"Classified", "Done"}
     /\ pc = "Done" =>
          result = (IF img_outcome = "text" THEN OcrText("image", 0)
                    ELSE EmptyStr)

C10_Witness ==
  /\ kind = "Image"
  /\ pc = "Done"
  /\ calls = 1
  /\ img_outcome = "text"
  /\ result = OcrText("image", 0)

\* C12: in every returned text a header '--- Page N ---' stands exactly for
\* the pages that gave non-empty text, once each, and is immediately
\* followed by the text of page N; a page whose text is empty, skipped or
\* failed has no header, and an image upload gives no header at all.
HeaderSet(s) == {s[i].num : i \in {j \in 1..Len(s) : IsHdr(s[j])}}

C12_HeaderExactlyForNonEmptyPages ==
  pc = "Done"
  => /\ \A i \in 1..Len(result) :
          /\ IsHdr(result[i]) =>
               /\ i < Len(result)
               /\ IsTxt(result[i + 1])
               /\ result[i + 1].n > 0
               /\ accepted = "yes" => page_text[result[i].num] = <<result[i + 1]>>
               /\ accepted = "no" => task[result[i].num].res = <<result[i + 1]>>
          /\ (IsTxt(result[i]) /\ kind = "Pdf") => (i > 1 /\ IsHdr(result[i - 1]))
     /\ Len(HeaderNums(result)) = Cardinality(HeaderSet(result))
     /\ (kind = "Pdf" /\ accepted = "yes") =>
          HeaderSet(result) = {p \in DOMAIN page_text : page_text[p] # EmptyStr}
     /\ (kind = "Pdf" /\ accepted = "no") =>
          HeaderSet(result) = {n \in DOMAIN task : task[n].res # EmptyStr}
     /\ kind # "Pdf" => HeaderSet(result) = {}

C12_Witness ==
  /\ PdfRunDone
  /\ accepted = "yes"
  /\ \E p \in DOMAIN page_text : page_text[p] = EmptyStr
  /\ Len(HeaderNums(result)) >= 2

\* the batch a page number falls in when batches hold max_workers pages
BatchOf(n) == (n - FirstPageNumber(range)) \div max_workers

Started(n) == task[n].st # "queued"
Completed(n) == task[n].st \in {"done", "collected"}

C15_InFlightWithinPool ==
  /\ Cardinality(Running) <= max_workers
  /\ Cardinality(Running) <= 3
  /\ pc # "Recognizing" => Running = {}

C15_Witness ==
  /\ pc = "Recognizing"
  /\ Cardinality(Running) = max_workers
  /\ Queued # {}
  /\ Len(images) > max_workers

DirectTextAlive ==
  /\ kind = "Pdf"
  /\ doc.readable
  /\ pc \in {"DirectExtracted", "QualityChecked"}
       \/ (pc = "Done" /\ accepted = "yes")

C17_DirectPageFailureIsIsolated ==
  DirectTextAlive
  => /\ doc_error = "none"
     /\ direct_failed \subseteq RangePages(range)
     /\ \A p \in RangePages(range) :
          /\ p \in direct_failed =>
               (page_text[p] = EmptyStr /\ ~HasBlock(extracted_text, p))
          /\ page_text[p] # EmptyStr =>
               BlockTexts(extracted_text, p) = {page_text[p][1]}

C17_Witness ==
  /\ PdfRunDone
  /\ accepted = "yes"
  /\ Cardinality(direct_failed) = 1
  /\ Len(HeaderNums(result)) = Cardinality(RangePages(range)) - 1
  /\ Cardinality(RangePages(range)) >= 3

\* One page more than the pool has workers, so that a page task has to wait
\* for a worker.
LivePages == max_workers + 1

\* A run whose calls to the page-content accessor and to the recognition
\* capability all return.  The uploads are an empty one, an image and PDFs
\* of up to LivePages pages, whole or windowed.
LiveInit ==
  /\ Init
  /\ filename = "scan.pdf"
  /\ doc.bytes \in {<<>>, PdfMagic \o <<"-">>, <<"x", "y", "z", "w">>}
  /\ doc.total <= LivePages
  /\ page_start \in {None, Some(2)}
  /\ page_end \in {None, Some(LivePages - 1)}

\* the thread of the run stands before the direct extraction
AtDirect == pc = "Classified" /\ kind = "Pdf"

\* ExtractDirect is possible exactly where the run stands before it
DirectPhaseEnabled == AtDirect <=> ENABLED <<ExtractDirect>>_vars

\* the steps of the thread that runs detect_text, the direct extraction apart
MainThread ==
  \/ EmptyInput
  \/ Classify
  \/ RecognizeImage
  \/ QualityCheck
  \/ AcceptDirect
  \/ Rasterize
  \/ Submit
  \/ \E p \in DOMAIN task : Collect(p)
  \/ Assemble

\* the steps of the workers of the pool
PoolWorkers == \E p \in DOMAIN task : WorkerStart(p) \/ WorkerFinish(p)

\* The thread of the run and the workers of the pool keep being scheduled,
\* so a step of theirs that stays possible is taken.  The second conjunct
\* is weak fairness of ExtractDirect written out (always eventually not
\* enabled, or always eventually taken), its step named by the position it
\* leaves and the one it reaches.
FairSpec ==
  /\ LiveInit
  /\ [][Next]_vars
  /\ ([]<>~AtDirect \/ []<><<AtDirect /\ pc' = "DirectExtracted">>_vars)
  /\ WF_vars(MainThread)
  /\ WF_vars(PoolWorkers)

\* C18: every run eventually ends (Done; the code has no Failed exit), and
\* when it has ended every submitted page task, and no other, has been
\* gathered.
C18_RunTerminates ==
  <>(/\ pc \in {"Done", "Failed"}
     /\ \A p \in DOMAIN task : task[p].st = "collected"
     /\ DOMAIN task \subseteq RangePages(range))

C18_Witness ==
  /\ PdfRunDone
  /\ range.end < doc.total
  /\ Cardinality(DOMAIN task) = Cardinality(RangePages(range))
  /\ Cardinality(DOMAIN task) >= 2
  /\ \A p \in DOMAIN task : task[p].st = "collected"

\* ------------------------------------------------ the evaluator on its own
\* lengths of the candidate texts: a fragment, the two sides of the minimum
\* length, and hundreds of characters
TextLens ==
  {ShortLen, MinStrippedLen - 1, MinStrippedLen}
    \cup {100 * k : k \in 1..MaxHundreds}

\* shares of a text, in percent of its length, that the '(cid:' markers, the
\* control characters and the characters 128..255 are given
Shares == {0, 1, 2, 3, 5, 6, 10, 11}
ExtShares == Shares \cup {100}

\* length of the marker '(cid:'
CidMarkerLen == Len(<<"(", "c", "i", "d", ":">>)

\* the 10% of the example and the 500 characters of the clean paragraph
CidExamplePercent == 2 * CidPercentLimit
ParagraphLen == 10 * MinStrippedLen

\* one-run texts: n characters, of which the last w are whitespace
CandidateTexts ==
  {EmptyStr} \cup
  { t \in { <<Txt("layer", 1, n, (n * c) \div 100, (n * k) \div 100,
                 (n * e) \div 100, w)>> :
             n \in TextLens, c \in Shares, k \in Shares, e \in ExtShares,
             w \in {0, 1} } :
      CidMarkerLen * t[1].cid + t[1].ctrl + t[1].ext + t[1].tws <= t[1].n }

EvalInit ==
  /\ candidate \in CandidateTexts
  /\ verdict = "none"
  /\ HandlerIdle
  /\ PipelineIdle

\* one call of _is_text_quality_good(candidate)
Evaluate ==
  /\ verdict = "none"
  /\ verdict' = IF _is_text_quality_good(candidate) THEN "accepted"
                ELSE "rejected"
  /\ UNCHANGED <<candidate, handler, pipeline>>

EvalNext == Evaluate

EvalSpec == EvalInit /\ [][EvalNext]_vars

\* C11: the evaluator rejects the empty text, rejects every text whose
\* '(cid:' markers number 10% of its length (the ratio of markers to total
\* length the evaluator computes), and accepts a 500-character paragraph
\* without markers and without control characters.
C11_EvaluatorContract ==
  verdict # "none" =>
    /\ candidate = EmptyStr => verdict = "rejected"
    /\ CidCount(candidate) * 100 = CidExamplePercent * StrLen(candidate)
         => verdict = "rejected"
    /\ ( /\ StrLen(candidate) = ParagraphLen
         /\ CidCount(candidate) = 0
         /\ ControlCount(candidate) = 0 )
         => verdict = "accepted"

C11_Witness ==
  /\ verdict = "rejected"
  /\ CidCount(candidate) * 100 = CidExamplePercent * StrLen(candidate)
  /\ StrippedLen(candidate) >= MinStrippedLen
  /\ ControlCount(candidate) = 0

C11_WitnessParagraph ==
  /\ verdict = "accepted"
  /\ StrLen(candidate) = ParagraphLen
  /\ CidCount(candidate) = 0
  /\ ControlCount(candidate) = 0

\* C19: a text in which more than 2% of the characters have code points
\* 128 to 255 is rejected, whatever its length, markers and control
\* characters.
C19_ExtendedRangeRejected ==
  (verdict # "none" /\ ExtCount(candidate) * 100 > 2 * StrLen(candidate))
    => verdict = "rejected"

\* the same for a text that consists of such characters only
C19_AllExtendedRejected ==
  ( /\ verdict # "none"
    /\ candidate # EmptyStr
    /\ ExtCount(candidate) = StrLen(candidate) )
    => verdict = "rejected"

\* ------------------------------------------------- the /api/ocr handler
\* class User, database.py 20-29: the defaults of the two credit columns
DefaultOcrCredits == 10
DefaultVoiceSeconds == 120

\* a row of users; its id is its place in the table.  initial_credits is
\* not a column: it keeps the ocr_credits the row had when the run began
UserRow(google_id, credits) ==
  [google_id |-> google_id, ocr_credits |-> credits,
   voice_credits_seconds |-> DefaultVoiceSeconds, initial_credits |-> credits]

\* db.query(User).filter(User.id == user_id).first()
HasUser(user_id) == user_id \in DOMAIN users

\* name of the file tempfile.NamedTemporaryFile makes for request r: a
\* fresh name for every call
TmpName(r) == r

\* one user, who has used some of the credits
OcrInit ==
  /\ reqs = [r \in Requests |-> NewRequest]
  /\ users \in {<<UserRow("g1", c)>> : c \in 0..MaxCredits}
  /\ tmp_files = {}
  /\ logins = [l \in Logins |-> NewLogin]
  /\ EvaluatorIdle
  /\ PipelineIdle

\* the request ends with an HTTP status
Respond(r, code) ==
  reqs' = [reqs EXCEPT ![r].pc = "Responded", ![r].status = code]

\* the request moves on inside the handler
Goto(r, to) == reqs' = [reqs EXCEPT ![r].pc = to]

\* get_current_user, main.py 140-150: 401 without a session or without a
\* row; otherwise the row is loaded into the session of this request
GetCurrentUser(r) ==
  /\ reqs[r].pc = "Arrived"
  /\ \E session \in {None} \cup {Some(id) : id \in 1..(Len(users) + 1)} :
       IF session # None /\ HasUser(session[1])
       THEN reqs' = [reqs EXCEPT ![r].pc = "Entered",
                                 ![r].user_id = session,
                                 ![r].user = Some(users[session[1]].ocr_credits)]
       ELSE Respond(r, 401)
  /\ UNCHANGED <<users, tmp_files, logins, evaluation, pipeline>>

\* variant: only a negative balance is refused
CheckCreditsBelowZero(r) ==
  /\ reqs[r].pc = "Entered"
  /\ IF reqs[r].user[1] < 0 THEN Respond(r, 402) ELSE Goto(r, "Checked")
  /\ UNCHANGED <<users, tmp_files, logins, evaluation, pipeline>>

\* ocr, lines 193-196: the credit check, on the loaded row
CheckCredits(r) ==
  /\ reqs[r].pc = "Entered"
  /\ IF reqs[r].user[1] <= 0 THEN Respond(r, 402) ELSE Goto(r, "Checked")
  /\ UNCHANGED <<users, tmp_files, logins, evaluation, pipeline>>

\* ocr, lines 198-200: an upload without a filename is refused
ValidateFile(r) ==
  /\ reqs[r].pc = "Checked"
  /\ \E has_filename \in BOOLEAN :
       IF has_filename THEN Goto(r, "Validated") ELSE Respond(r, 400)
  /\ UNCHANGED <<users, tmp_files, logins, evaluation, pipeline>>

\* ocr, line 206: NamedTemporaryFile(delete=False) makes the file, or
\* raises and leaves none (then lines 233-235 answer 500)
CreateTempFile(r) ==
  /\ reqs[r].pc = "Validated"
  /\ \E created \in BOOLEAN :
       IF created
       THEN /\ tmp_files' = tmp_files \cup {TmpName(r)}
            /\ reqs' = [reqs EXCEPT ![r].pc = "Created",
                                    ![r].created = TRUE]
       ELSE /\ tmp_files' = tmp_files
            /\ Respond(r, 500)
  /\ UNCHANGED <<users, logins, evaluation, pipeline>>

\* ocr, lines 207-208: the upload is copied into the file and tmp_path is
\* set; if copyfileobj raises, the with-block closes the file, which was
\* made with delete=False, and the exception leaves through lines 233-235
CopyUpload(r) ==
  /\ reqs[r].pc = "Created"
  /\ \E copied \in BOOLEAN :
       IF copied
       THEN reqs' = [reqs EXCEPT ![r].pc = "Saved",
                                 ![r].tmp_path = Some(TmpName(r))]
       ELSE Respond(r, 500)
  /\ UNCHANGED <<users, tmp_files, logins, evaluation, pipeline>>

\* ocr, lines 210-219: text detection on tmp_path returns or raises
DetectTextFromPath(r) ==
  /\ reqs[r].pc = "Saved"
  /\ \E returned \in BOOLEAN :
       reqs' = [reqs EXCEPT
                  ![r].pc = IF returned THEN "Detected" ELSE "Raising",
                  ![r].detections = @ + 1]
  /\ UNCHANGED <<users, tmp_files, logins, evaluation, pipeline>>

\* ocr, lines 221-223: user.ocr_credits -= 1 on the loaded row, then
\* db.commit() writes the new value of the row (UPDATE users SET
\* ocr_credits = <the value> WHERE id = <user.id>), or raises
DeductCredit(r) ==
  /\ reqs[r].pc = "Detected"
  /\ \E committed \in BOOLEAN :
       IF committed
       THEN /\ users' = [users EXCEPT ![reqs[r].user_id[1]].ocr_credits =
                                         reqs[r].user[1] - 1]
            /\ reqs' = [reqs EXCEPT ![r].pc = "Returning",
                                    ![r].user = Some(reqs[r].user[1] - 1),
                                    ![r].commits = @ + 1]
       ELSE /\ users' = users
            /\ Goto(r, "Raising")
  /\ UNCHANGED <<tmp_files, logins, evaluation, pipeline>>

\* ocr, lines 226-235: the finally block removes tmp_path if it exists;
\* then the response is returned, or the exception becomes a 500
RemoveTempFile(r) ==
  /\ reqs[r].pc \in {"Returning", "Raising"}
  /\ tmp_files' = tmp_files \ {reqs[r].tmp_path[1]}
  /\ Respond(r, IF reqs[r].pc = "Returning" THEN 200 ELSE 500)
  /\ UNCHANGED <<users, logins, evaluation, pipeline>>

OcrNext ==
  \/ \E r \in Requests : GetCurrentUser(r)
  \/ \E r \in Requests : CheckCredits(r)
  \/ \E r \in Requests : ValidateFile(r)
  \/ \E r \in Requests : CreateTempFile(r)
  \/ \E r \in Requests : CopyUpload(r)
  \/ \E r \in Requests : DetectTextFromPath(r)
  \/ \E r \in Requests : DeductCredit(r)
  \/ \E r \in Requests : RemoveTempFile(r)

OcrSpec == OcrInit /\ [][OcrNext]_vars

OcrTypeOK ==
  /\ \A id \in DOMAIN users :
       users[id].ocr_credits \in
         -MaxRequests..Max(MaxCredits, DefaultOcrCredits)
  /\ tmp_files \subseteq {TmpName(r) : r \in Requests}
  /\ \A r \in Requests :
       /\ reqs[r].pc \in {"Arrived", "Entered", "Checked", "Validated",
                           "Created", "Saved", "Detected", "Returning",
                           "Raising", "Responded"}
       /\ reqs[r].status \in {0, 200, 400, 401, 402, 500}
       /\ reqs[r].status # 0 <=> reqs[r].pc = "Responded"

\* C20: once the handler has returned or raised, the temporary file it made
\* for the upload does not exist, whichever way it ended.
C20_TempFileAlwaysRemoved ==
  \A r \in Requests :
    reqs[r].pc = "Responded" => TmpName(r) \notin tmp_files

\* what the finally block does give: a request that got as far as setting
\* tmp_path leaves no file
C20_RemovedOnceSaved ==
  \A r \in Requests :
    (reqs[r].pc = "Responded" /\ reqs[r].tmp_path # None)
      => TmpName(r) \notin tmp_files

\* the error statuses of /api/ocr
ErrorStatuses == {400, 401, 402, 500}

\* the requests of the user with this id that were answered with the text
Served(id) ==
  {r \in Requests : reqs[r].status = 200 /\ reqs[r].user_id = Some(id)}

\* C21: a request that enters the handler with a loaded ocr_credits <= 0
\* takes one step, the answer 402, and none after it; it has made no
\* temporary file, no call of the text detection and no commit, and that
\* step leaves the users table and the temporary files as they are.
C21_NoCreditsIsRefusedBeforeProcessing ==
  [][\A r \in Requests :
       /\ reqs[r].pc = "Responded" => reqs'[r] = reqs[r]
       /\ ( /\ reqs[r].pc = "Entered"
            /\ reqs[r].user[1] <= 0
            /\ reqs'[r] # reqs[r] )
          => /\ reqs'[r].pc = "Responded"
             /\ reqs'[r].status = 402
             /\ \A q \in Requests \ {r} : reqs'[q] = reqs[q]
             /\ ~reqs'[r].created
             /\ reqs'[r].detections = 0
             /\ reqs'[r].commits = 0
             /\ users' = users
             /\ tmp_files' = tmp_files]_vars

\* a request is refused after another one has used the last credit
C21_Witness ==
  \E r1, r2 \in Requests :
    /\ reqs[r1].status = 200
    /\ reqs[r2].status = 402
    /\ reqs[r2].user = Some(0)
    /\ ~reqs[r2].created
    /\ TmpName(r2) \notin tmp_files

\* ------------------------------------------------------------- the logins
\* the 'sub' values Google reports
GoogleIds == {"g1", "g2"}

\* db.query(User).filter(User.google_id == google_id): the ids of the rows
RowsOf(google_id) ==
  {id \in DOMAIN users : users[id].google_id = google_id}

\* .first() of that query
FirstRowOf(google_id) ==
  CHOOSE id \in RowsOf(google_id) : \A other \in RowsOf(google_id) : id <= other

\* the login moves on
LoginGoto(l, to) == logins' = [logins EXCEPT ![l].pc = to]

\* auth_callback, main.py 119-122: without userinfo nothing is looked up
\* and the browser is redirected
AuthCallback(l) ==
  /\ logins[l].pc = "Arrived"
  /\ \E user_info \in {None} \cup {Some(g) : g \in GoogleIds} :
       IF user_info = None THEN LoginGoto(l, "Redirected")
       ELSE logins' = [logins EXCEPT ![l].pc = "Called",
                                     ![l].google_id = user_info]
  /\ UNCHANGED <<reqs, users, tmp_files, evaluation, pipeline>>

\* variant: a user who is found gets the default credits written again
QueryUserResettingCredits(l) ==
  /\ logins[l].pc = "Called"
  /\ LET google_id == logins[l].google_id[1]
     IN IF RowsOf(google_id) # {}
        THEN LET id == FirstRowOf(google_id)
             IN /\ users' = [users EXCEPT
                               ![id].ocr_credits = DefaultOcrCredits]
                /\ logins' = [logins EXCEPT
                                ![l].pc = "Redirected",
                                ![l].found = TRUE,
                                ![l].user = Some(DefaultOcrCredits),
                                ![l].user_id = Some(id)]
        ELSE /\ users' = users
             /\ LoginGoto(l, "Creating")
  /\ UNCHANGED <<reqs, tmp_files, evaluation, pipeline>>

\* get_or_create_user, database.py 41-47 and 61, and main.py 124-130: the
\* query by google_id; a user who is found is returned as stored and its id
\* goes into the session
QueryUser(l) ==
  /\ logins[l].pc = "Called"
  /\ LET google_id == logins[l].google_id[1]
     IN IF RowsOf(google_id) # {}
        THEN LET id == FirstRowOf(google_id)
             IN logins' = [logins EXCEPT
                             ![l].pc = "Redirected",
                             ![l].found = TRUE,
                             ![l].user = Some(users[id].ocr_credits),
                             ![l].user_id = Some(id)]
        ELSE LoginGoto(l, "Creating")
  /\ UNCHANGED <<reqs, users, tmp_files, evaluation, pipeline>>

\* get_or_create_user, database.py 47-59: a new row with the default
\* credits is added and committed.  google_id is a unique column (line 23):
\* the commit of a second row with the same google_id raises, as any commit
\* may, and the callback fails
CreateUser(l) ==
  /\ logins[l].pc = "Creating"
  /\ LET google_id == logins[l].google_id[1]
     IN \E committed \in BOOLEAN :
          IF committed /\ RowsOf(google_id) = {}
          THEN /\ users' = Append(users, UserRow(google_id, DefaultOcrCredits))
               /\ logins' = [logins EXCEPT
                               ![l].pc = "Redirected",
                               ![l].user = Some(DefaultOcrCredits),
                               ![l].user_id = Some(Len(users) + 1)]
          ELSE /\ users' = users
               /\ LoginGoto(l, "Failed")
  /\ UNCHANGED <<reqs, tmp_files, evaluation, pipeline>>

\* the OCR requests that run among the logins: two, so that credits are
\* used before, between and after logins
AppRequests == {1, 2}

\* nobody has logged in yet
AppInit ==
  /\ reqs = [r \in Requests |-> NewRequest]
  /\ users = <<>>
  /\ tmp_files = {}
  /\ logins = [l \in Logins |-> NewLogin]
  /\ EvaluatorIdle
  /\ PipelineIdle

AppNext ==
  \/ \E l \in Logins : AuthCallback(l)
  \/ \E l \in Logins : QueryUser(l)
  \/ \E l \in Logins : CreateUser(l)
  \/ \E r \in AppRequests : GetCurrentUser(r)
  \/ \E r \in AppRequests : CheckCredits(r)
  \/ \E r \in AppRequests : ValidateFile(r)
  \/ \E r \in AppRequests : CreateTempFile(r)
  \/ \E r \in AppRequests : CopyUpload(r)
  \/ \E r \in AppRequests : DetectTextFromPath(r)
  \/ \E r \in AppRequests : DeductCredit(r)
  \/ \E r \in AppRequests : RemoveTempFile(r)

AppSpec == AppInit /\ [][AppNext]_vars

\* no two rows of a table have the same google_id
UniqueGoogleIds(table) ==
  \A i, j \in DOMAIN table :
    table[i].google_id = table[j].google_id => i = j

\* C22: a login whose query finds a row of the google_id returns that row
\* and writes nothing; no step of a login changes a row that exists, so
\* ocr_credits and voice_credits_seconds are never set back to the
\* defaults; and no google_id ever has two rows.
C22_ReturningUserKeepsState ==
  [][/\ \A l \in Logins :
          ( /\ logins[l].pc = "Called"
            /\ RowsOf(logins[l].google_id[1]) # {}
            /\ logins'[l] # logins[l] )
          => /\ users' = users
             /\ logins'[l].user_id = Some(FirstRowOf(logins[l].google_id[1]))
             /\ logins'[l].user =
                  Some(users[FirstRowOf(logins[l].google_id[1])].ocr_credits)
     /\ logins' # logins
          => \A id \in DOMAIN users :
               id \in DOMAIN users' /\ users'[id] = users[id]
     /\ UniqueGoogleIds(users')]_vars

\* a user who has used a credit logs in again and still has one credit
\* less than the default, with the voice credits of the first login
C22_Witness ==
  \E l \in Logins :
    /\ logins[l].pc = "Redirected"
    /\ logins[l].found
    /\ logins[l].user = Some(DefaultOcrCredits - 1)
    /\ users[logins[l].user_id[1]].ocr_credits = DefaultOcrCredits - 1
    /\ users[logins[l].user_id[1]].voice_credits_seconds = DefaultVoiceSeconds
    /\ Len(users) = 1

\* two first logins of one google_id at the same time: one of them fails
C22_WitnessRace ==
  \E l1, l2 \in Logins :
    /\ logins[l1].pc = "Redirected"
    /\ logins[l2].pc = "Failed"
    /\ logins[l1].google_id = logins[l2].google_id
    /\ ~logins[l1].found

\* C23: the stored ocr_credits of a user changes only by a decrement of
\* exactly one, made by a request of that user whose text detection has
\* returned; and a request that ends in an error response has committed
\* nothing.
C23_CreditsChangeOnlyByOneDecrement ==
  [][/\ \A id \in DOMAIN users :
          users'[id].ocr_credits # users[id].ocr_credits
          => /\ users'[id].ocr_credits = users[id].ocr_credits - 1
             /\ \E r \in Requests :
                  /\ reqs[r].user_id = Some(id)
                  /\ reqs[r].pc = "Detected"
                  /\ reqs'[r].pc = "Returning"
     /\ \A r \in Requests :
          reqs'[r].status \in ErrorStatuses => reqs'[r].commits = 0]_vars

\* the part of it that holds: whatever changes ocr_credits is the commit of
\* a request whose text detection has returned, and a request that ends in
\* an error response has committed nothing
C23_OnlyServedRequestsCommit ==
  [][/\ users' # users
          => \E r \in Requests :
               /\ reqs[r].pc = "Detected"
               /\ reqs'[r].pc = "Returning"
               /\ reqs'[r].commits = 1
     /\ \A r \in Requests :
          reqs'[r].status \in ErrorStatuses => reqs'[r].commits = 0]_vars

\* C24: however the requests of a user interleave, no more of them are
\* answered with the text than the user had credits at the start, and the
\* stored ocr_credits is never below 0.
C24_NoLostUpdate ==
  \A id \in DOMAIN users :
    /\ Cardinality(Served(id)) <= users[id].initial_credits
    /\ users[id].ocr_credits >= 0

\* the part of it that holds: a commit writes the loaded value less one,
\* and the loaded value has passed the credit check
C24_CreditsNeverNegative ==
  \A id \in DOMAIN users : users[id].ocr_credits >= 0

====
